---------------------------- MODULE Spec2Model ----------------------------
(***************************************************************************)
(* A model of main.py, the script that prepares a training image, packages *)
(* the trainer sources, uploads them and submits a SageMaker training job. *)
(*                                                                         *)
(* Three specifications share the variables below:                         *)
(*   Spec     one run of main(build_image), step by step at the external   *)
(*            calls, with every call free to succeed or to raise;          *)
(*   SpecTar  create_tar_file walking a bounded directory tree;            *)
(*   SpecCfg  EstimatorConfig.to_estimator_args and                        *)
(*            json_encode_hyperparameters on bounded configurations.       *)
(***************************************************************************)
EXTENDS Integers, Sequences, FiniteSets, TLC

VARIABLES
    \* ---- one run of main ----
    pc,                   \* position of the run in main and its callees
    build_image,          \* the --build-image flag
    sm_settings,          \* SagemakerTrainingSettings, or NoValue
    err,                  \* the exception in flight, NoError when none
    ops,                  \* external operations issued so far, in order
    file,                 \* trainer_<RUN_ID>.tar.gz on disk: "absent" / "file"
    pkg,                  \* prepare_training_code_on_s3: idle/running/returned/raised
    auth_data,            \* response["authorizationData"][0]
    auth_config,          \* DockerAuthConfig built by login_to_ecr
    image_uri,            \* local of build_and_push_image
    stream,               \* the push stream, as chunk kinds
    consumed,             \* chunks of the stream consumed by the for loop
    container_image_uri,  \* local of main
    trainer_sources,      \* local of main
    trainer_config,       \* local of main
    job,                  \* arguments of the Estimator(...) call
    \* ---- create_tar_file ----
    tree,                 \* the files under SOURCE_DIR, as component paths
    towalk,               \* directories os.walk has still to yield
    tar,                  \* archive members added so far, in order
    tpc,                  \* position of the create_tar_file run
    \* ---- to_estimator_args / json_encode_hyperparameters ----
    cfg,                  \* an EstimatorConfig
    args,                 \* what to_estimator_args returned
    hp,                   \* a hyperparameter dict, as a list of items
    enc,                  \* what json_encode_hyperparameters returned
    dec,                  \* the encoded dict with every value JSON-decoded
    cpc                   \* position of the SpecCfg run

mainVars == <<pc, build_image, sm_settings, err, ops, file, pkg, auth_data,
              auth_config, image_uri, stream, consumed, container_image_uri,
              trainer_sources, trainer_config, job>>
tarVars == <<tree, towalk, tar, tpc>>
cfgVars == <<cfg, args, hp, enc, dec, cpc>>
vars == <<mainVars, tarVars, cfgVars>>

----------------------------------------------------------------------------
(* Bounds of the model.                                                    *)
MaxChunks == 3      \* longest push stream
MaxTokenLen == 3    \* longest decoded authorization token
MaxDepth == 2       \* deepest directory nesting under SOURCE_DIR
MaxFiles == 2       \* most files in a tree
MaxItems == 2       \* most items in a hyperparameter dict

SeqsUpTo(S, n) == UNION {[1..k -> S] : k \in 0..n}

RECURSIVE Flatten(_, _)
\* sep.join(parts), on strings held as sequences of characters
Flatten(parts, sep) ==
    IF parts = <<>> THEN <<>>
    ELSE IF Len(parts) = 1 THEN parts[1]
    ELSE parts[1] \o sep \o Flatten(Tail(parts), sep)

EndsWith(s, suffix) ==
    /\ Len(s) >= Len(suffix)
    /\ SubSeq(s, Len(s) - Len(suffix) + 1, Len(s)) = suffix

----------------------------------------------------------------------------
(* Module constants of main.py                                             *)
SOURCE_DIR == <<"t", "r", "a", "i", "n", "e", "r">>
S3_CODE_PREFIX == "code"
S3_CODE_BASENAME == "trainer"
TRAIN_CONFIG_FILENAME == "config.yaml"

NoError == [kind |-> "none", site |-> "none"]
Raise(kind, site) == [kind |-> kind, site |-> site]

----------------------------------------------------------------------------
(* Python values, tagged so that values of different types never meet in a *)
(* comparison.  A str is a sequence of characters; a dict is the list of   *)
(* its items in insertion order, with pairwise distinct keys.              *)
PyNone == <<"none", 0>>
PyBool(b) == <<"bool", b>>
PyInt(n) == <<"int", n>>
PyStr(s) == <<"str", s>>
PyList(xs) == <<"list", xs>>
PyDict(items) == <<"dict", items>>
PyDate == <<"date", 0>>      \* a datetime.date, as yaml.safe_load can yield

Digit(d) == <<"0", "1", "2", "3", "4", "5", "6", "7", "8", "9">>[d + 1]
DigitChars == {"0", "1", "2", "3", "4", "5", "6", "7", "8", "9"}
DigitValue(c) == CHOOSE d \in 0..9 : Digit(d) = c

RECURSIVE NatToStr(_)
NatToStr(n) == IF n < 10 THEN <<Digit(n)>>
               ELSE NatToStr(n \div 10) \o <<Digit(n % 10)>>

\* str(k), for the key types the model has
Str(k) == IF k[1] = "int"
          THEN (IF k[2] < 0 THEN <<"-">> \o NatToStr(-k[2]) ELSE NatToStr(k[2]))
          ELSE k[2]

\* d[k] = v on a dict held as its item list: an existing key keeps its
\* place and takes the new value, a new key is appended
DictSet(items, k, v) ==
    IF \E i \in DOMAIN items : items[i][1] = k
    THEN [i \in DOMAIN items |-> IF items[i][1] = k THEN <<k, v>> ELSE items[i]]
    ELSE Append(items, <<k, v>>)

RECURSIVE Escape(_)
\* the JSON string escapes of the characters the model has
Escape(s) ==
    IF s = <<>> THEN <<>>
    ELSE (IF Head(s) \in {"\"", "\\"} THEN <<"\\", Head(s)>> ELSE <<Head(s)>>)
         \o Escape(Tail(s))

Quote(s) == <<"\"">> \o Escape(s) \o <<"\"">>

RECURSIVE Serializable(_)
\* json.dumps(v) does not raise TypeError
Serializable(v) ==
    CASE v[1] \in {"none", "bool", "int", "str"} -> TRUE
      [] v[1] = "list" -> \A i \in DOMAIN v[2] : Serializable(v[2][i])
      [] v[1] = "dict" -> \A i \in DOMAIN v[2] :
                             /\ v[2][i][1][1] \in {"int", "str"}
                             /\ Serializable(v[2][i][2])
      [] OTHER -> FALSE

RECURSIVE Dumps(_)
\* json.dumps(v) with the default separators, for a serializable v
Dumps(v) ==
    CASE v[1] = "none" -> <<"n", "u", "l", "l">>
      [] v[1] = "bool" -> IF v[2] THEN <<"t", "r", "u", "e">>
                                  ELSE <<"f", "a", "l", "s", "e">>
      [] v[1] = "int" -> Str(v)
      [] v[1] = "str" -> Quote(v[2])
      [] v[1] = "list" ->
            <<"[">> \o Flatten([i \in DOMAIN v[2] |-> Dumps(v[2][i])], <<",", " ">>)
                    \o <<"]">>
      [] v[1] = "dict" ->
            <<"{">> \o Flatten([i \in DOMAIN v[2] |->
                                  Quote(Str(v[2][i][1])) \o <<":", " ">>
                                      \o Dumps(v[2][i][2])],
                               <<",", " ">>)
                    \o <<"}">>

RECURSIVE ParseString(_, _, _)
\* s[i] is the first character after the opening quote
ParseString(s, i, acc) ==
    IF s[i] = "\"" THEN <<PyStr(acc), i + 1>>
    ELSE IF s[i] = "\\" THEN ParseString(s, i + 2, Append(acc, s[i + 1]))
    ELSE ParseString(s, i + 1, Append(acc, s[i]))

RECURSIVE ParseNat(_, _, _)
ParseNat(s, i, acc) ==
    IF i <= Len(s) /\ s[i] \in DigitChars
    THEN ParseNat(s, i + 1, 10 * acc + DigitValue(s[i]))
    ELSE <<acc, i>>

RECURSIVE ParseValue(_, _)
RECURSIVE ParseItems(_, _, _)
RECURSIVE ParseMembers(_, _, _)

\* the JSON value starting at s[i], and the index after it
ParseValue(s, i) ==
    CASE s[i] = "n" -> <<PyNone, i + 4>>
      [] s[i] = "t" -> <<PyBool(TRUE), i + 4>>
      [] s[i] = "f" -> <<PyBool(FALSE), i + 5>>
      [] s[i] = "\"" -> ParseString(s, i + 1, <<>>)
      [] s[i] = "-" -> LET r == ParseNat(s, i + 1, 0) IN <<PyInt(-r[1]), r[2]>>
      [] s[i] \in DigitChars -> LET r == ParseNat(s, i, 0) IN <<PyInt(r[1]), r[2]>>
      [] s[i] = "[" -> IF s[i + 1] = "]" THEN <<PyList(<<>>), i + 2>>
                       ELSE ParseItems(s, i + 1, <<>>)
      [] s[i] = "{" -> IF s[i + 1] = "}" THEN <<PyDict(<<>>), i + 2>>
                       ELSE ParseMembers(s, i + 1, <<>>)

ParseItems(s, i, acc) ==
    LET r == ParseValue(s, i) IN
    IF s[r[2]] = "," THEN ParseItems(s, r[2] + 2, Append(acc, r[1]))
    ELSE <<PyList(Append(acc, r[1])), r[2] + 1>>

\* an object's members; a repeated key keeps the last value, as json.loads does
ParseMembers(s, i, acc) ==
    LET k == ParseString(s, i + 1, <<>>)
        r == ParseValue(s, k[2] + 2)
        items == DictSet(acc, k[1], r[1])
    IN  IF s[r[2]] = "," THEN ParseMembers(s, r[2] + 2, items)
        ELSE <<PyDict(items), r[2] + 1>>

\* json.loads(text), the receiving system's decoding of one value
Loads(text) == ParseValue(text, 1)[1]

RECURSIVE EncodeItems(_, _)
EncodeItems(items, acc) ==
    IF items = <<>> THEN acc
    ELSE EncodeItems(Tail(items),
                     DictSet(acc, PyStr(Str(Head(items)[1])),
                                  PyStr(Dumps(Head(items)[2]))))

\* a slip that stringifies a number before encoding it: json.dumps(str(v))
json_encode_hyperparameters_str_first(hyperparameters) ==
    EncodeItems([i \in DOMAIN hyperparameters |->
                    <<hyperparameters[i][1],
                      IF hyperparameters[i][2][1] = "int"
                      THEN PyStr(Str(hyperparameters[i][2]))
                      ELSE hyperparameters[i][2]>>],
                <<>>)

\* {str(k): json.dumps(v) for (k, v) in hyperparameters.items()}
json_encode_hyperparameters(hyperparameters) == EncodeItems(hyperparameters, <<>>)

\* json_encode_hyperparameters raises (TypeError from json.dumps)
EncodeRaises(hyperparameters) ==
    \E i \in DOMAIN hyperparameters : ~Serializable(hyperparameters[i][2])

\* every value of an encoded dict passed through json.loads
DecodeValues(encoded) ==
    [i \in DOMAIN encoded |-> <<encoded[i][1], Loads(encoded[i][2][2])>>]


----------------------------------------------------------------------------
(* EstimatorConfig                                                         *)
FieldNames == {"entry_point", "instance_count", "instance_type", "base_job_name",
               "use_spot_instances", "max_run", "max_wait", "hyperparameters"}

EstimatorConfig(spot, run, wait, hyperparameters) ==
    [entry_point |-> "train.py", instance_count |-> 1,
     instance_type |-> "ml.m5.large", base_job_name |-> "job",
     use_spot_instances |-> spot, max_run |-> run, max_wait |-> wait,
     hyperparameters |-> hyperparameters]

\* BaseModel.model_dump(): a dict with every declared field, None included
model_dump(self) == [f \in FieldNames |-> self[f]]

\* dict.pop(key) of a key the dict has
Pop(d, key) == [f \in DOMAIN d \ {key} |-> d[f]]

\* a slip that drops only one of the two duration fields
to_estimator_args_one_pop(self) ==
    LET dumped == model_dump(self)
        popped == IF ~self.use_spot_instances THEN Pop(dumped, "max_run") ELSE dumped
    IN  [popped EXCEPT !["hyperparameters"] = json_encode_hyperparameters(@)]

to_estimator_args(self) ==
    LET dumped == model_dump(self)
        popped == IF ~self.use_spot_instances
                  THEN Pop(Pop(dumped, "max_run"), "max_wait")
                  ELSE dumped
    IN  [popped EXCEPT !["hyperparameters"] = json_encode_hyperparameters(@)]

\* hyperparameters: dict[str, Any], the items of a dict that validation
\* accepts: those under a str key
HasStrKey(item) == item[1][1] = "str"
StrKeyed(items) == SelectSeq(items, HasStrKey)

----------------------------------------------------------------------------
(* SpecCfg: the two functions applied to bounded inputs                    *)
KeyValues == {PyInt(1), PyStr(<<"1">>), PyStr(<<"a">>)}
ScalarValues == {PyNone, PyBool(TRUE), PyInt(1), PyInt(12), PyInt(-3),
                 PyStr(<<"1">>), PyStr(<<"a", "\"">>)}
HpValues ==
    ScalarValues \cup
    {PyList(<<>>), PyList(<<PyInt(1), PyStr(<<"a">>)>>),
     PyDict(<<<<PyStr(<<"a">>), PyInt(0)>>>>),
     PyDict(<<<<PyInt(1), PyInt(0)>>>>),
     PyDate}
Durations == {PyNone, PyInt(3600)}

DistinctKeys(items) ==
    \A i, j \in DOMAIN items : items[i][1] = items[j][1] => i = j

\* the hyperparameter dicts of the model
HpDicts == {items \in SeqsUpTo(KeyValues \X HpValues, MaxItems) : DistinctKeys(items)}

InitMainIdle ==
    /\ pc = "idle" /\ build_image = FALSE
    /\ sm_settings = <<>> /\ err = NoError /\ ops = <<>> /\ file = "absent"
    /\ pkg = "idle" /\ auth_data = <<>> /\ auth_config = <<>> /\ image_uri = <<>>
    /\ stream = <<>> /\ consumed = 0 /\ container_image_uri = <<>>
    /\ trainer_sources = <<>> /\ trainer_config = <<>> /\ job = <<>>

InitTarIdle == tree = {} /\ towalk = {} /\ tar = <<>> /\ tpc = "idle"

InitCfgIdle ==
    /\ cfg = <<>> /\ args = <<>> /\ hp = <<>> /\ enc = <<>> /\ dec = <<>>
    /\ cpc = "idle"

InitCfg ==
    /\ InitMainIdle /\ InitTarIdle
    /\ hp \in HpDicts
    /\ \E spot \in BOOLEAN, run \in Durations, wait \in Durations :
          cfg = EstimatorConfig(spot, run, wait, StrKeyed(hp))
    /\ args = <<>> /\ enc = <<>> /\ dec = <<>>
    /\ cpc = "init"

\* trainer_config.to_estimator_args()
ToEstimatorArgs ==
    /\ cpc = "init"
    /\ IF EncodeRaises(cfg.hyperparameters)
       THEN cpc' = "args_raised" /\ args' = args
       ELSE cpc' = "args" /\ args' = to_estimator_args(cfg)
    /\ UNCHANGED <<cfg, hp, enc, dec, mainVars, tarVars>>

\* json_encode_hyperparameters(hp) called on any dict
JsonEncodeHyperparameters ==
    /\ cpc = "init"
    /\ IF EncodeRaises(hp)
       THEN cpc' = "encode_raised" /\ enc' = enc
       ELSE cpc' = "encoded" /\ enc' = json_encode_hyperparameters(hp)
    /\ UNCHANGED <<cfg, hp, args, dec, mainVars, tarVars>>

\* the receiving job decodes every value with json.loads
JsonDecodeValues ==
    /\ cpc = "encoded"
    /\ dec' = DecodeValues(enc)
    /\ cpc' = "decoded"
    /\ UNCHANGED <<cfg, hp, args, enc, mainVars, tarVars>>

NextCfg == ToEstimatorArgs \/ JsonEncodeHyperparameters \/ JsonDecodeValues

SpecCfg == InitCfg /\ [][NextCfg]_vars


----------------------------------------------------------------------------
(* Properties of to_estimator_args and json_encode_hyperparameters,        *)
(* checked under SpecCfg                                                   *)

\* C3: with use_spot_instances false, the returned arguments have neither
\* max_run nor max_wait, whatever the config gave them, and have every
\* other field.
C3_NoDurationsWithoutSpot ==
    (cpc = "args" /\ ~cfg.use_spot_instances) =>
        /\ "max_run" \notin DOMAIN args
        /\ "max_wait" \notin DOMAIN args
        /\ FieldNames \ {"max_run", "max_wait"} \subseteq DOMAIN args

\* a config without spot instances that gives both durations a value
C3_Witness ==
    /\ cpc = "args" /\ ~cfg.use_spot_instances
    /\ cfg.max_run = PyInt(3600) /\ cfg.max_wait = PyInt(3600)

RECURSIVE JsonNative(_)
\* None, bool, int, str, and lists and str-keyed dicts of these
JsonNative(v) ==
    CASE v[1] \in {"none", "bool", "int", "str"} -> TRUE
      [] v[1] = "list" -> \A i \in DOMAIN v[2] : JsonNative(v[2][i])
      [] v[1] = "dict" -> \A i \in DOMAIN v[2] :
                             /\ v[2][i][1][1] = "str"
                             /\ JsonNative(v[2][i][2])
      [] OTHER -> FALSE

DistinctStr(items) ==
    \A i, j \in DOMAIN items : Str(items[i][1]) = Str(items[j][1]) => i = j

\* a mapping from text keys to text values
TextMapping(encoded) ==
    \A i \in DOMAIN encoded : encoded[i][1][1] = "str" /\ encoded[i][2][1] = "str"

\* as many entries as the original, and under the text of each original key
\* a value that decodes to the original value
RoundTrips(items, decoded) ==
    /\ Len(decoded) = Len(items)
    /\ \A i \in DOMAIN items : \E j \in DOMAIN decoded :
          /\ decoded[j][1] = PyStr(Str(items[i][1]))
          /\ decoded[j][2] = items[i][2]

----------------------------------------------------------------------------
(* create_tar_file.  A file of the tree is the sequence of its path        *)
(* components below the source directory: the directories, then the name.  *)
Venv == <<".", "v", "e", "n", "v">>
DirNames == {Venv, <<"x">> \o Venv, <<"l", "i", "b">>}
FileNames == {<<"f">>, <<"g">>}

AllFiles == {d \o <<f>> : d \in SeqsUpTo(DirNames, MaxDepth), f \in FileNames}
Trees == {t \in SUBSET AllFiles : Cardinality(t) <= MaxFiles}

DirOf(f) == SubSeq(f, 1, Len(f) - 1)
\* every directory of the tree, the source directory (<<>>) included
DirsOf(t) == UNION {{SubSeq(f, 1, n) : n \in 0..(Len(f) - 1)} : f \in t} \cup {<<>>}

RECURSIVE SetToSeq(_)
SetToSeq(S) == IF S = {} THEN <<>>
               ELSE LET x == CHOOSE y \in S : TRUE IN <<x>> \o SetToSeq(S \ {x})

\* os.path.join(a, b, ...)
PathJoin(parts) == Flatten(parts, <<"/">>)

\* os.path.relpath(path, start) of a path below start
RelPath(path, start) == SubSeq(path, Len(start) + 2, Len(path))

\* the members one iteration of the os.walk loop adds, for the directory d
\* (lines 68-72): none when root ends with ".venv"
WalkAdds(source_dir, d, t) ==
    LET root == PathJoin(<<source_dir>> \o d)
        files == SetToSeq({f \in t : DirOf(f) = d})
    IN  IF EndsWith(root, Venv) THEN <<>>
        ELSE [i \in DOMAIN files |->
                RelPath(PathJoin(<<root, files[i][Len(files[i])]>>), source_dir)]

InitTar ==
    /\ InitMainIdle /\ InitCfgIdle
    /\ tree \in Trees
    /\ towalk = {} /\ tar = <<>> /\ tpc = "start"

\* tarfile.open(target_filename, "w:gz"); os.walk starts
TarOpen ==
    /\ tpc = "start"
    /\ towalk' = DirsOf(tree)
    /\ tpc' = "walking"
    /\ UNCHANGED <<tree, tar, mainVars, cfgVars>>

\* one iteration of the for loop over os.walk, top-down
WalkDir ==
    /\ tpc = "walking"
    /\ \E d \in towalk :
          /\ d = <<>> \/ DirOf(d) \notin towalk
          /\ tar' = tar \o WalkAdds(SOURCE_DIR, d, tree)
          /\ towalk' = towalk \ {d}
    /\ UNCHANGED <<tree, tpc, mainVars, cfgVars>>

\* the walk is exhausted and the with block closes the archive
TarClose ==
    /\ tpc = "walking" /\ towalk = {}
    /\ tpc' = "closed"
    /\ UNCHANGED <<tree, towalk, tar, mainVars, cfgVars>>

NextTar == TarOpen \/ WalkDir \/ TarClose

SpecTar == InitTar /\ [][NextTar]_vars

\* how many members of the archive have the name n
Members(n) == Cardinality({i \in DOMAIN tar : tar[i] = n})

UnderVenv(f) == \E i \in 1..(Len(f) - 1) : f[i] = Venv

\* C2 as stated: the archive has no file that lies anywhere under a
\* directory named .venv, and has every other file of the tree exactly
\* once, under its path relative to the source root, and nothing else.
C2_ArchiveIsTreeWithoutVenv ==
    tpc = "closed" =>
        /\ \A f \in tree :
              Members(PathJoin(f)) = (IF UnderVenv(f) THEN 0 ELSE 1)
        /\ \A i \in DOMAIN tar : \E f \in tree : tar[i] = PathJoin(f)


----------------------------------------------------------------------------
(* One run of main(build_image)                                            *)
Repositories == {"123.dkr.ecr/trainer"}
Tags == {"v1", "v2"}
RunIds == {"given", "20240101T000000000000"}   \* from RUN_ID, or the timestamp

Settings(repository, tag, run_id) ==
    [AWS_S3_BUCKET |-> "bucket", AWS_SM_EXECUTION_ROLE_ARN |-> "role",
     AWS_ECR_REPOSITORY |-> repository, IMAGE_TAG |-> tag, RUN_ID |-> run_id]

\* f"{repository}:{tag}"
ImageUri(repository, tag) == <<repository, ":", tag>>

\* f"{S3_CODE_BASENAME}_{sm_settings.RUN_ID}.tar.gz"
TrainerFilename(settings) == <<S3_CODE_BASENAME, "_", settings.RUN_ID, ".tar.gz">>

\* what Session.upload_data(path, bucket, key_prefix) returns
S3Uri(path, bucket, key_prefix) == <<"s3://", bucket, "/", key_prefix, "/">> \o path

Issued(op) == \E i \in DOMAIN ops : ops[i] = op
Count(op) == Cardinality({i \in DOMAIN ops : ops[i] = op})

\* ---- login_to_ecr ----
TokenChars == {"A", ":", "p"}
\* an authorization token: whether base64.b64decode accepts it, and the text
\* it decodes to
Tokens == {[b64 |-> TRUE, text |-> t] : t \in SeqsUpTo(TokenChars, MaxTokenLen)}
          \cup {[b64 |-> FALSE, text |-> <<>>]}
Endpoint == "https://123.dkr.ecr"

\* response["authorizationData"][0] with or without each of the two fields
AuthData(hasToken, token, hasEndpoint) ==
    IF hasToken /\ hasEndpoint
    THEN [authorizationToken |-> token, proxyEndpoint |-> Endpoint]
    ELSE IF hasToken THEN [authorizationToken |-> token]
    ELSE IF hasEndpoint THEN [proxyEndpoint |-> Endpoint]
    ELSE [expiresAt |-> 0]

RECURSIVE SplitAcc(_, _, _, _)
SplitAcc(s, sep, cur, acc) ==
    IF s = <<>> THEN Append(acc, cur)
    ELSE IF Head(s) = sep THEN SplitAcc(Tail(s), sep, <<>>, Append(acc, cur))
    ELSE SplitAcc(Tail(s), sep, Append(cur, Head(s)), acc)

\* str.split(sep)
Split(s, sep) == SplitAcc(s, sep, <<>>, <<>>)

LoginResult(error, username, password, registry) ==
    [error |-> error, username |-> username, password |-> password,
     registry |-> registry]

\* lines 102-110 of login_to_ecr: the exception raised, or the credentials
DecodeAuth(d) ==
    IF "authorizationToken" \notin DOMAIN d
    THEN LoginResult("ECRLoginError", <<>>, <<>>, "")
    ELSE LET token == d.authorizationToken
             parts == Split(token.text, ":")
         IN  IF ~token.b64 THEN LoginResult("binascii.Error", <<>>, <<>>, "")
             ELSE IF Len(parts) # 2 THEN LoginResult("ValueError", <<>>, <<>>, "")
             ELSE IF "proxyEndpoint" \notin DOMAIN d
             THEN LoginResult("ECRLoginError", <<>>, <<>>, "")
             ELSE LoginResult("none", parts[1], parts[2], d.proxyEndpoint)

\* ---- push_docker_image ----
ChunkKinds == {"status", "error", "error_no_message"}
Chunk(kind) ==
    CASE kind = "status" -> [status |-> "Pushing"]
      [] kind = "error" -> [errorDetail |-> [message |-> "denied"], error |-> "denied"]
      [] kind = "error_no_message" -> [errorDetail |-> [code |-> 500]]
Streams == SeqsUpTo(ChunkKinds, MaxChunks)

\* lines 136-137 on one chunk: go on, or the exception raised
ChunkOutcome(chunk) ==
    IF "errorDetail" \in DOMAIN chunk
    THEN (IF "message" \in DOMAIN chunk.errorDetail THEN "RuntimeError" ELSE "KeyError")
    ELSE "continue"

MainHyperparameters == {<<<<PyStr(<<"a">>), PyInt(1)>>>>, <<<<PyStr(<<"a">>), PyDate>>>>}
MainConfigs == {EstimatorConfig(spot, d, d, h) :
                   spot \in BOOLEAN, d \in Durations, h \in MainHyperparameters}

Init ==
    /\ InitTarIdle /\ InitCfgIdle
    /\ pc = "start"
    /\ build_image \in BOOLEAN
    /\ file \in {"absent", "file"}
    /\ sm_settings = <<>> /\ err = NoError /\ ops = <<>> /\ pkg = "idle"
    /\ auth_data = <<>> /\ auth_config = <<>> /\ image_uri = <<>>
    /\ stream = <<>> /\ consumed = 0 /\ container_image_uri = <<>>
    /\ trainer_sources = <<>> /\ trainer_config = <<>> /\ job = <<>>

\* an exception leaves main: the process ends
Fails(kind, site) == err' = Raise(kind, site) /\ pc' = "exit"

\* sm_settings = SagemakerTrainingSettings()
LoadSettings ==
    /\ pc = "start"
    /\ \/ /\ \E r \in Repositories, t \in Tags, id \in RunIds :
                sm_settings' = Settings(r, t, id)
          /\ pc' = "prepare_image"
          /\ err' = err
       \/ /\ Fails("ValidationError", "SagemakerTrainingSettings")
          /\ sm_settings' = sm_settings
    /\ UNCHANGED <<build_image, ops, file, pkg, auth_data, auth_config, image_uri,
                   stream, consumed, container_image_uri, trainer_sources,
                   trainer_config, job, tarVars, cfgVars>>

\* a slip that takes the else branch whatever the flag
PrepareTrainingImageSkipAlways ==
    /\ pc = "prepare_image"
    /\ container_image_uri' =
          ImageUri(sm_settings.AWS_ECR_REPOSITORY, sm_settings.IMAGE_TAG)
    /\ pc' = "package"
    /\ UNCHANGED <<build_image, sm_settings, err, ops, file, pkg, auth_data,
                   auth_config, image_uri, stream, consumed, trainer_sources,
                   trainer_config, job, tarVars, cfgVars>>

\* prepare_training_image, the else branch
PrepareTrainingImageSkip ==
    /\ pc = "prepare_image"
    /\ ~build_image
    /\ container_image_uri' =
          ImageUri(sm_settings.AWS_ECR_REPOSITORY, sm_settings.IMAGE_TAG)
    /\ pc' = "package"
    /\ UNCHANGED <<build_image, sm_settings, err, ops, file, pkg, auth_data,
                   auth_config, image_uri, stream, consumed, trainer_sources,
                   trainer_config, job, tarVars, cfgVars>>

\* prepare_training_image, the build branch, up to the registry's answer
GetAuthorizationToken ==
    /\ pc = "prepare_image"
    /\ build_image
    /\ ops' = Append(ops, "get_authorization_token")
    /\ \/ /\ \E hasToken \in BOOLEAN, token \in Tokens, hasEndpoint \in BOOLEAN :
                auth_data' = AuthData(hasToken, token, hasEndpoint)
          /\ pc' = "login_decode"
          /\ err' = err
       \/ /\ Fails("ClientError", "get_authorization_token")
          /\ auth_data' = auth_data
    /\ UNCHANGED <<build_image, sm_settings, file, pkg, auth_config, image_uri,
                   stream, consumed, container_image_uri, trainer_sources,
                   trainer_config, job, tarVars, cfgVars>>

\* login_to_ecr from the membership tests to the second one
LoginToEcrDecode ==
    /\ pc = "login_decode"
    /\ LET r == DecodeAuth(auth_data) IN
          IF r.error # "none" THEN Fails(r.error, "login_to_ecr")
          ELSE pc' = "docker_login" /\ err' = err
    /\ UNCHANGED <<build_image, sm_settings, ops, file, pkg, auth_data, auth_config,
                   image_uri, stream, consumed, container_image_uri,
                   trainer_sources, trainer_config, job, tarVars, cfgVars>>

\* docker_client.login(...) and the return of login_to_ecr
DockerLogin ==
    /\ pc = "docker_login"
    /\ ops' = Append(ops, "docker_login")
    /\ \/ /\ LET r == DecodeAuth(auth_data) IN
                auth_config' = [username |-> r.username, password |-> r.password,
                                registry |-> r.registry]
          /\ pc' = "build"
          /\ err' = err
       \/ /\ Fails("APIError", "docker_client.login")
          /\ auth_config' = auth_config
    /\ UNCHANGED <<build_image, sm_settings, file, pkg, auth_data, image_uri,
                   stream, consumed, container_image_uri, trainer_sources,
                   trainer_config, job, tarVars, cfgVars>>

BuildDockerImage ==
    /\ pc = "build"
    /\ ops' = Append(ops, "build")
    /\ \/ /\ image_uri' =
                ImageUri(sm_settings.AWS_ECR_REPOSITORY, sm_settings.IMAGE_TAG)
          /\ pc' = "push"
          /\ err' = err
       \/ /\ Fails("BuildError", "images.build")
          /\ image_uri' = image_uri
    /\ UNCHANGED <<build_image, sm_settings, file, pkg, auth_data, auth_config,
                   stream, consumed, container_image_uri, trainer_sources,
                   trainer_config, job, tarVars, cfgVars>>

\* docker_client.images.push(..., stream=True, decode=True)
PushStart ==
    /\ pc = "push"
    /\ ops' = Append(ops, "push")
    /\ \/ /\ stream' \in Streams
          /\ pc' = "push_loop"
          /\ err' = err
       \/ /\ Fails("APIError", "images.push")
          /\ stream' = stream
    /\ UNCHANGED <<build_image, sm_settings, file, pkg, auth_data, auth_config,
                   image_uri, consumed, container_image_uri, trainer_sources,
                   trainer_config, job, tarVars, cfgVars>>

\* a slip that pushes once more on an error chunk instead of raising
PushChunkRetry ==
    /\ pc = "push_loop"
    /\ consumed < Len(stream)
    /\ LET outcome == ChunkOutcome(Chunk(stream[consumed + 1])) IN
          IF outcome = "continue"
          THEN consumed' = consumed + 1 /\ UNCHANGED <<pc, err, ops>>
          ELSE IF Count("push") < 2
          THEN consumed' = 0 /\ ops' = Append(ops, "push") /\ UNCHANGED <<pc, err>>
          ELSE consumed' = consumed + 1 /\ ops' = ops
               /\ Fails(outcome, "push_docker_image")
    /\ UNCHANGED <<build_image, sm_settings, file, pkg, auth_data, auth_config,
                   image_uri, stream, container_image_uri, trainer_sources,
                   trainer_config, job, tarVars, cfgVars>>

\* one iteration of the for loop of push_docker_image
PushChunk ==
    /\ pc = "push_loop"
    /\ consumed < Len(stream)
    /\ consumed' = consumed + 1
    /\ LET outcome == ChunkOutcome(Chunk(stream[consumed + 1])) IN
          IF outcome = "continue" THEN UNCHANGED <<pc, err>>
          ELSE Fails(outcome, "push_docker_image")
    /\ UNCHANGED <<build_image, sm_settings, ops, file, pkg, auth_data, auth_config,
                   image_uri, stream, container_image_uri, trainer_sources,
                   trainer_config, job, tarVars, cfgVars>>

\* the stream ends; build_and_push_image and prepare_training_image return
PushReturn ==
    /\ pc = "push_loop"
    /\ consumed = Len(stream)
    /\ container_image_uri' = image_uri
    /\ pc' = "package"
    /\ UNCHANGED <<build_image, sm_settings, err, ops, file, pkg, auth_data,
                   auth_config, image_uri, stream, consumed, trainer_sources,
                   trainer_config, job, tarVars, cfgVars>>


\* prepare_training_code_on_s3 up to the end of create_tar_file.  tarfile.open
\* may raise before it has created the file, and adding a member may raise
\* after it has.
CreateTarFile ==
    /\ pc = "package"
    /\ pkg' = "running"
    /\ \/ file' = "file" /\ pc' = "upload" /\ err' = err
       \/ file' = file /\ pc' = "finally" /\ err' = Raise("OSError", "tarfile.open")
       \/ file' = "file" /\ pc' = "finally" /\ err' = Raise("OSError", "tar.add")
    /\ UNCHANGED <<build_image, sm_settings, ops, auth_data, auth_config, image_uri,
                   stream, consumed, container_image_uri, trainer_sources,
                   trainer_config, job, tarVars, cfgVars>>

\* sagemaker_session.upload_data(trainer_filename, bucket, S3_CODE_PREFIX)
UploadData ==
    /\ pc = "upload"
    /\ ops' = Append(ops, "upload_data")
    /\ pc' = "finally"
    /\ \/ err' = err
       \/ err' = Raise("S3UploadFailedError", "upload_data")
    /\ UNCHANGED <<build_image, sm_settings, file, pkg, auth_data, auth_config,
                   image_uri, stream, consumed, container_image_uri,
                   trainer_sources, trainer_config, job, tarVars, cfgVars>>

\* a slip that removes the archive only after a successful upload
RemoveArchiveOnSuccessOnly ==
    /\ pc = "finally"
    /\ IF err # NoError
       THEN /\ pkg' = "raised" /\ pc' = "exit"
            /\ UNCHANGED <<file, err, trainer_sources>>
       ELSE /\ file' = "absent" /\ pkg' = "returned" /\ pc' = "load_config"
            /\ trainer_sources' = S3Uri(TrainerFilename(sm_settings),
                                        sm_settings.AWS_S3_BUCKET, S3_CODE_PREFIX)
            /\ err' = err
    /\ UNCHANGED <<build_image, sm_settings, ops, auth_data, auth_config, image_uri,
                   stream, consumed, container_image_uri, trainer_config, job,
                   tarVars, cfgVars>>

\* the finally block, os.remove(trainer_filename), and what follows it: the
\* return of sources, or the exception that leaves the function.  os.remove
\* of a file that does not exist raises FileNotFoundError, which takes the
\* place of the exception in flight.
RemoveArchive ==
    /\ pc = "finally"
    /\ IF file = "file"
       THEN /\ file' = "absent"
            /\ err' = err
            /\ IF err = NoError
               THEN /\ pkg' = "returned" /\ pc' = "load_config"
                    /\ trainer_sources' =
                          S3Uri(TrainerFilename(sm_settings),
                                sm_settings.AWS_S3_BUCKET, S3_CODE_PREFIX)
               ELSE /\ pkg' = "raised" /\ pc' = "exit"
                    /\ trainer_sources' = trainer_sources
       ELSE /\ file' = file
            /\ Fails("FileNotFoundError", "os.remove")
            /\ pkg' = "raised"
            /\ trainer_sources' = trainer_sources
    /\ UNCHANGED <<build_image, sm_settings, ops, auth_data, auth_config, image_uri,
                   stream, consumed, container_image_uri, trainer_config, job,
                   tarVars, cfgVars>>

\* trainer_config = EstimatorConfig.from_yaml(TRAIN_CONFIG_FILENAME)
LoadTrainConfig ==
    /\ pc = "load_config"
    /\ \/ trainer_config' \in MainConfigs /\ pc' = "estimator" /\ err' = err
       \/ Fails("ValidationError", "from_yaml") /\ trainer_config' = trainer_config
    /\ UNCHANGED <<build_image, sm_settings, ops, file, pkg, auth_data, auth_config,
                   image_uri, stream, consumed, container_image_uri,
                   trainer_sources, job, tarVars, cfgVars>>

\* the arguments of the sagemaker.estimator.Estimator(...) call
EstimatorCall(image, role, source_dir, estimator_args) ==
    [image_uri |-> image, role |-> role, source_dir |-> source_dir,
     args |-> estimator_args]

\* a slip that hands over the local archive name instead of the uploaded one
CreateEstimatorLocalSource ==
    /\ pc = "estimator"
    /\ IF EncodeRaises(trainer_config.hyperparameters)
       THEN Fails("TypeError", "to_estimator_args") /\ job' = job
       ELSE \/ /\ job' = EstimatorCall(container_image_uri,
                                       sm_settings.AWS_SM_EXECUTION_ROLE_ARN,
                                       TrainerFilename(sm_settings),
                                       to_estimator_args(trainer_config))
               /\ pc' = "fit"
               /\ err' = err
            \/ Fails("ValueError", "Estimator") /\ job' = job
    /\ UNCHANGED <<build_image, sm_settings, ops, file, pkg, auth_data, auth_config,
                   image_uri, stream, consumed, container_image_uri,
                   trainer_sources, trainer_config, tarVars, cfgVars>>

\* estimator = sagemaker.estimator.Estimator(container_image_uri, role,
\*     source_dir=trainer_sources, **trainer_config.to_estimator_args())
CreateEstimator ==
    /\ pc = "estimator"
    /\ IF EncodeRaises(trainer_config.hyperparameters)
       THEN Fails("TypeError", "to_estimator_args") /\ job' = job
       ELSE \/ /\ job' = EstimatorCall(container_image_uri,
                                       sm_settings.AWS_SM_EXECUTION_ROLE_ARN,
                                       trainer_sources,
                                       to_estimator_args(trainer_config))
               /\ pc' = "fit"
               /\ err' = err
            \/ Fails("ValueError", "Estimator") /\ job' = job
    /\ UNCHANGED <<build_image, sm_settings, ops, file, pkg, auth_data, auth_config,
                   image_uri, stream, consumed, container_image_uri,
                   trainer_sources, trainer_config, tarVars, cfgVars>>

\* estimator.fit(wait=False): the job is submitted and main returns
Fit ==
    /\ pc = "fit"
    /\ ops' = Append(ops, "fit")
    /\ pc' = "exit"
    /\ \/ err' = err
       \/ err' = Raise("ClientError", "fit")
    /\ UNCHANGED <<build_image, sm_settings, file, pkg, auth_data, auth_config,
                   image_uri, stream, consumed, container_image_uri,
                   trainer_sources, trainer_config, job, tarVars, cfgVars>>

Next ==
    \/ LoadSettings
    \/ PrepareTrainingImageSkip
    \/ GetAuthorizationToken
    \/ LoginToEcrDecode
    \/ DockerLogin
    \/ BuildDockerImage
    \/ PushStart
    \/ PushChunk
    \/ PushReturn
    \/ CreateTarFile
    \/ UploadData
    \/ RemoveArchive
    \/ LoadTrainConfig
    \/ CreateEstimator
    \/ Fit

Spec == Init /\ [][Next]_vars


----------------------------------------------------------------------------
(* Properties of one run of main, checked under Spec                       *)

\* C1: once prepare_training_code_on_s3 has returned or raised, whatever
\* create_tar_file and the upload did, the archive file is not on disk.
C1_ArchiveRemoved == pkg \in {"returned", "raised"} => file = "absent"

\* the upload raised after the archive was written, and the step has raised
C1_Witness ==
    /\ pkg = "raised" /\ err.site = "upload_data" /\ Issued("upload_data")

ErrorChunk(kind) == "errorDetail" \in DOMAIN Chunk(kind)
HasError(st) == \E i \in DOMAIN st : ErrorChunk(st[i])
FirstError(st) ==
    CHOOSE i \in DOMAIN st : ErrorChunk(st[i]) /\ \A j \in 1..(i - 1) : ~ErrorChunk(st[j])
\* push_docker_image has returned or raised on a stream it was given
PushFinished == Issued("push") /\ pc # "push_loop" /\ err.site # "images.push"

\* C4 as stated: on every push stream, RuntimeError is raised at the first
\* chunk that has errorDetail, no chunk after it is consumed, and the
\* function returns normally only when no chunk has errorDetail.
C4_RuntimeErrorAtFirstErrorChunk ==
    PushFinished =>
        IF HasError(stream)
        THEN /\ err = Raise("RuntimeError", "push_docker_image")
             /\ consumed = FirstError(stream)
        ELSE /\ err.site # "push_docker_image"
             /\ consumed = Len(stream)

\* (beside C4) what the loop does on every stream: it stops at the first
\* chunk that has errorDetail, with RuntimeError when that errorDetail has a
\* message and KeyError when it has none.
PushStopsAtFirstErrorChunk ==
    PushFinished =>
        IF HasError(stream)
        THEN /\ consumed = FirstError(stream)
             /\ err = Raise(IF stream[consumed] = "error" THEN "RuntimeError"
                            ELSE "KeyError", "push_docker_image")
        ELSE /\ err.site # "push_docker_image"
             /\ consumed = Len(stream)

\* login_to_ecr has got a response and is past its two membership tests
AuthDecoded ==
    /\ Issued("get_authorization_token")
    /\ err.site # "get_authorization_token"
    /\ pc # "login_decode"

\* C5 as stated: when the response lacks authorizationToken, or lacks
\* proxyEndpoint, login_to_ecr fails with ECRLoginError and no other kind,
\* and docker login is not called.
C5_MissingFieldIsECRLoginError ==
    (/\ AuthDecoded
     /\ \/ "authorizationToken" \notin DOMAIN auth_data
        \/ "proxyEndpoint" \notin DOMAIN auth_data)
    => /\ err = Raise("ECRLoginError", "login_to_ecr")
       /\ ~Issued("docker_login")

\* (beside C5) what holds of every response: a missing token is an
\* ECRLoginError; a missing endpoint is one when the token decodes to
\* exactly username:password; docker login is called in neither case.
MissingFieldNeverLogsIn ==
    (/\ AuthDecoded
     /\ \/ "authorizationToken" \notin DOMAIN auth_data
        \/ "proxyEndpoint" \notin DOMAIN auth_data)
    => /\ ~Issued("docker_login")
       /\ err.site = "login_to_ecr"
       /\ \/ "authorizationToken" \notin DOMAIN auth_data
          \/ (auth_data.authorizationToken.b64
              /\ Len(Split(auth_data.authorizationToken.text, ":")) = 2)
          => err.kind = "ECRLoginError"

\* the step of main a position belongs to
Phase(p) ==
    CASE p = "start" -> 1
      [] p \in {"prepare_image", "login_decode", "docker_login", "build", "push",
                "push_loop"} -> 2
      [] p \in {"package", "upload", "finally"} -> 3
      [] p = "load_config" -> 4
      [] p \in {"estimator", "fit"} -> 5
      [] p = "exit" -> 6

\* the run stays in its step or moves to the next one, and moves on (or
\* submits) only with no exception in flight
StepOrder ==
    /\ pc' # "exit" =>
          /\ Phase(pc') \in {Phase(pc), Phase(pc) + 1}
          /\ Phase(pc') = Phase(pc) + 1 => err = NoError /\ err' = NoError
    /\ (Issued("fit")' /\ ~Issued("fit")) => err = NoError /\ Phase(pc) = 5

\* a submitted job rests on loaded settings, a prepared image, an uploaded
\* archive and a loaded config, and carries what those steps produced
JobFromSteps ==
    Issued("fit") =>
        /\ DOMAIN sm_settings # {}
        /\ DOMAIN trainer_config # {}
        /\ pkg = "returned" /\ Issued("upload_data")
        /\ build_image => Issued("push") /\ ~HasError(stream)
        /\ container_image_uri =
              ImageUri(sm_settings.AWS_ECR_REPOSITORY, sm_settings.IMAGE_TAG)
        /\ trainer_sources = S3Uri(TrainerFilename(sm_settings),
                                   sm_settings.AWS_S3_BUCKET, S3_CODE_PREFIX)
        /\ job.image_uri = container_image_uri
        /\ job.source_dir = trainer_sources
        /\ job.role = sm_settings.AWS_SM_EXECUTION_ROLE_ARN

\* C6: the steps of main run in the order settings, image, source upload,
\* config, submission, each starting only after the one before succeeded;
\* a job is submitted only after all of them succeeded, with the image
\* reference and the source location they produced.
C6_LinearSteps == [](JobFromSteps) /\ [][StepOrder]_vars

\* a job submitted after an image build and push
C6_Witness ==
    /\ pc = "exit" /\ err = NoError /\ Issued("fit") /\ build_image
    /\ Len(stream) >= 1

IsRegistryOp(op) == op \in {"get_authorization_token", "docker_login", "build", "push"}
BuildOrder == <<"get_authorization_token", "docker_login", "build", "push">>
IsPrefix(a, b) == Len(a) <= Len(b) /\ SubSeq(b, 1, Len(a)) = a

\* C7: without the build flag prepare_training_image issues no token
\* request, login, build or push and returns <repository>:<tag>; with the
\* flag it issues them in the order login (token request, docker login),
\* build, push, and returns the same reference.
C7_SkipOrBuildInOrder ==
    /\ ~build_image => SelectSeq(ops, IsRegistryOp) = <<>>
    /\ build_image => IsPrefix(SelectSeq(ops, IsRegistryOp), BuildOrder)
    /\ container_image_uri # <<>> =>
          /\ container_image_uri =
                ImageUri(sm_settings.AWS_ECR_REPOSITORY, sm_settings.IMAGE_TAG)
          /\ build_image => SelectSeq(ops, IsRegistryOp) = BuildOrder

\* the build branch has returned after a stream of several chunks
C7_Witness ==
    /\ build_image /\ container_image_uri # <<>> /\ Len(stream) >= 2
    /\ consumed = Len(stream)

\* C8 as stated: the exception that leaves prepare_training_code_on_s3 is
\* the one create_tar_file raised, or the one the upload raised; the
\* cleanup never puts another in its place.
C8_OriginalErrorReachesCaller ==
    pkg = "raised" =>
        IF Issued("upload_data") THEN err.site = "upload_data"
        ELSE err.site \in {"tarfile.open", "tar.add"}

ExternalOps == {"get_authorization_token", "docker_login", "build", "push",
                "upload_data", "fit"}
AtMostOnce == \A op \in ExternalOps : Count(op) <= 1
\* with an exception in flight nothing is issued or produced any more; the
\* one step still taken is the finally block's removal of the archive
QuietAfterFailure ==
    err # NoError =>
        /\ UNCHANGED <<ops, job, sm_settings, auth_data, auth_config, image_uri,
                       stream, consumed, container_image_uri, trainer_sources,
                       trainer_config, build_image>>
        /\ pc = "finally"

\* C10: every external operation is issued at most once in a run, and once
\* a step has failed no further one is issued: nothing is retried, no job
\* is submitted, and only the removal of the archive file still happens.
C10_NoRetryNoWorkAfterFailure == [](AtMostOnce) /\ [][QuietAfterFailure]_vars

\* the upload failed, the archive was then removed, and the run has ended
C10_Witness ==
    /\ pc = "exit" /\ err.site = "upload_data" /\ file = "absent"
    /\ build_image /\ Len(ops) = 5


====
